---- MODULE Spec2Model ----
(***************************************************************************)
(* Model of the realtime voice session hook useRealtimeVoice               *)
(* (src/frontend/src/hooks/useRealtimeVoice.ts).                           *)
(*                                                                         *)
(* The hook runs on one event loop.  Every action below is one task of     *)
(* that loop: a call of a user-facing operation, the continuation of a     *)
(* connect() invocation after one of its awaits, or a callback of the      *)
(* peer connection / data channel.  Several connect() invocations can be   *)
(* suspended at the same time, so each invocation ("attempt") has its own  *)
(* position and its own local objects (pc, audioEl, stream, dc); the       *)
(* objects created by attempt a are identified by a.                       *)
(***************************************************************************)
EXTENDS Integers, Sequences, FiniteSets, TLC

\* Number of connect() invocations that pass the guard in one behaviour.
MaxAttempts == 2

Attempts == 1..MaxAttempts

\* Longest conversationHistory, longest currentResponse (in characters),
\* most response payloads and most events per channel that are explored.
MaxHistory == 2

MaxResponseLen == 5

MaxResponses == 1

MaxWire == 5

\* An unset (undefined) handle of WebRTCConnectionState.
NULL == 0

Handles == Attempts \cup {NULL}

\* VoiceInterfaceState.error left undefined.
NoError == "undefined"

ErrMic == "Microphone permission denied or not available"
ErrToken == "Failed to get ephemeral token"
ErrSdp == "Failed to connect to OpenAI: 500"
ErrFetch == "Failed to fetch"
ErrInvalidState == "InvalidStateError"
ErrOperation == "OperationError"

VARIABLES
    conn,                 \* connectionRef.current
    state,                \* the useState value (VoiceInterfaceState)
    autoConnectAttempted, \* autoConnectAttemptedRef.current
    att,                  \* per connect() invocation: position and ghost flags
    nextAttempt,          \* number of connect() invocations that passed the guard
    pcState,              \* RTCPeerConnection of each attempt
    dcState,              \* RTCDataChannel of each attempt
    track,                \* microphone track of each attempt's MediaStream
    audioSrc,             \* srcObject of each attempt's audio element
    enabled,              \* enabled flag of each attempt's microphone track
    wire,                 \* events sent on each attempt's data channel, in order
    isMuted,              \* isMutedRef.current
    responses,            \* payloads handed to onResponseReceived, in order
    autoConnect,          \* the autoConnect option
    effectDeps,           \* dependencies the auto-connect effect last ran with
    script,               \* progress of the remote peer's scripted exchange
    announced,            \* onConnected was called and onDisconnected not since
    op                    \* the task that ran last, with what it emitted

vars == <<conn, state, autoConnectAttempted, att, nextAttempt,
          pcState, dcState, track, audioSrc, enabled, wire,
          isMuted, responses, autoConnect, effectDeps, script, announced,
          op>>

objs == <<pcState, dcState, track, audioSrc, enabled, wire>>

\* What the connection lifecycle leaves alone.
hook == <<isMuted, responses, autoConnect, effectDeps, script, announced>>

----------------------------------------------------------------------------
\* Data

\* The value connectionRef is initialised with and disconnect() resets it to.
BaselineConn ==
    [connected |-> FALSE, connecting |-> FALSE,
     peerConnection |-> NULL, dataChannel |-> NULL,
     audioElement |-> NULL, localStream |-> NULL]

InitialState ==
    [isListening |-> FALSE, isConnected |-> FALSE, isConnecting |-> FALSE,
     isSpeaking |-> FALSE, hasPermission |-> FALSE, error |-> NoError,
     currentResponse |-> "", conversationHistory |-> <<>>]

\* Positions of a connect() invocation: the await it is suspended on, or how
\* it ended.
Suspended == {"getEphemeralToken", "getUserMedia", "createOffer",
              "setLocalDescription", "iceGathering", "sdpFetch",
              "setRemoteDescription"}

Ended == {"done", "failed", "denied"}

InitAttempt == [pc |-> "idle", cancelled |-> FALSE, auto |-> FALSE]

\* Content parts, conversation items and client events.  An item without
\* text stands for one that carries audio only.
NoItem == [type |-> "none", role |-> "none", content |-> <<>>]

Message(role, partType, text) ==
    [type |-> "message", role |-> role,
     content |-> <<[type |-> partType, text |-> text]>>]

ClientEvent(type, item) == [type |-> type, item |-> item]

\* The session.update event of dc.onopen.
SessionUpdate == ClientEvent("session.update", NoItem)

\* Inputs: texts the user submits, and what the remote peer sends.
Texts == {"hi", "why"}

Deltas == {"Hel", "lo"}

ServerItems ==
    {Message("user", "input_text", "hi"), Message("assistant", "text", "Hello")}

AssistantText(t) == Message("assistant", "text", t)

AssistantAudio == Message("assistant", "audio", "")

Outputs ==
    {<<>>,
     <<AssistantText("Hello")>>,
     <<AssistantText("")>>,
     <<AssistantAudio>>,
     <<Message("user", "input_text", "hi"), AssistantText("Hello")>>,
     <<AssistantAudio, AssistantText("Hello")>>,
     <<[type |-> "message", role |-> "assistant",
        content |-> <<[type |-> "audio", text |-> ""],
                      [type |-> "text", text |-> "Hello"]>>]>>}

RemoteErrors ==
    {[type |-> "invalid_request_error", message |-> "bad event"],
     [type |-> "server_error", message |-> "overloaded"]}

NoRemoteError == [type |-> "", message |-> ""]

ServerEvent(type, item, delta, output, error) ==
    [type |-> type, item |-> item, delta |-> delta, output |-> output,
     error |-> error]

PlainEvent(type) == ServerEvent(type, NoItem, "", <<>>, NoRemoteError)

ItemCreated(item) ==
    ServerEvent("conversation.item.created", item, "", <<>>, NoRemoteError)

TextDelta(delta) ==
    ServerEvent("response.text.delta", NoItem, delta, <<>>, NoRemoteError)

ResponseDone(output) ==
    ServerEvent("response.done", NoItem, "", output, NoRemoteError)

ErrorEvent(e) == ServerEvent("error", NoItem, "", <<>>, e)

ServerEvents ==
    {PlainEvent(t) : t \in {"session.created", "session.updated",
                            "response.created",
                            "input_audio_buffer.speech_started",
                            "input_audio_buffer.speech_stopped",
                            "rate_limits.updated"}}
        \cup {ItemCreated(i) : i \in ServerItems}
        \cup {TextDelta(d) : d \in Deltas}
        \cup {ResponseDone(o) : o \in Outputs}
        \cup {ErrorEvent(e) : e \in RemoteErrors}

Op(name, a) ==
    [name |-> name, att |-> a, again |-> FALSE,
     notes |-> <<>>, sent |-> <<>>, steps |-> <<>>]

----------------------------------------------------------------------------
\* Pieces of the handlers

\* connect(): the re-entrancy guard.
ConnectGuard_OnlyConnected(c) == c.connected

ConnectGuard(c) == c.connecting \/ c.connected

\* connect(): the calls each task of an invocation makes on the platform, in
\* the order of the code.
ConnectSteps == <<"fetchToken">>

TokenOkSteps_MicrophoneFirst ==
    <<"newPeerConnection", "getUserMedia", "addTransceiver">>

TokenOkSteps == <<"newPeerConnection", "addTransceiver", "getUserMedia">>

GumOkSteps == <<"addTrack", "createDataChannel", "createOffer">>

OfferOkSteps == <<"setLocalDescription">>

PostOfferSteps == <<"postOffer">>

SdpOkSteps == <<"setRemoteDescription">>

\* disconnect(): the teardown steps that are taken for the handles held in c,
\* in the order of the code, then the reset of the UI flags and the
\* notification.
DisconnectSteps_PeerFirst(c) ==
    (IF c.peerConnection # NULL THEN <<"peerConnection.close">> ELSE <<>>)
    \o (IF c.dataChannel # NULL THEN <<"dataChannel.close">> ELSE <<>>)
    \o (IF c.localStream # NULL THEN <<"track.stop">> ELSE <<>>)
    \o (IF c.audioElement # NULL THEN <<"srcObject = null">> ELSE <<>>)
    \o <<"resetConnection", "setState", "onDisconnected">>

DisconnectSteps(c) ==
    (IF c.dataChannel # NULL THEN <<"dataChannel.close">> ELSE <<>>)
    \o (IF c.peerConnection # NULL THEN <<"peerConnection.close">> ELSE <<>>)
    \o (IF c.localStream # NULL THEN <<"track.stop">> ELSE <<>>)
    \o (IF c.audioElement # NULL THEN <<"srcObject = null">> ELSE <<>>)
    \o <<"resetConnection", "setState", "onDisconnected">>

\* connect(): the flag writes that open an attempt.
ConnectStartState(s) == [s EXCEPT !.isConnecting = TRUE, !.error = NoError]

ConnectStartConn(c) == [c EXCEPT !.connecting = TRUE]

\* dc.onopen: the writes to connectionRef.current.
OnOpenConn_KeepsConnecting(c) == [c EXCEPT !.connected = TRUE]

OnOpenConn(c) == [c EXCEPT !.connected = TRUE, !.connecting = FALSE]

OnOpenState(s) ==
    [s EXCEPT !.isConnected = TRUE, !.isConnecting = FALSE, !.error = NoError]

\* dc.onclose
OnCloseConn(c) == [c EXCEPT !.connected = FALSE]

OnCloseState_KeepsConnected(s) == s

OnCloseState(s) == [s EXCEPT !.isConnected = FALSE]

\* connect(): the outer catch block.
CatchConn(c) == [c EXCEPT !.connecting = FALSE, !.connected = FALSE]

CatchState(s, msg) ==
    [s EXCEPT !.isConnecting = FALSE, !.isConnected = FALSE, !.error = msg]

\* connect(): the error thrown for an SDP response that is not ok, from its
\* status and the text of its body.
HttpStatuses == {"401", "500"}

ErrorBodies == {"", "invalid offer"}

SdpErrorMessage(status, errText) ==
    "Failed to connect to OpenAI: " \o status
        \o (IF errText # "" THEN " - " \o errText ELSE "")

\* connect(): the inner catch block around getUserMedia.
GumFailState(s) == [s EXCEPT !.error = ErrMic, !.hasPermission = FALSE]

\* disconnect(): the reset of connectionRef.current.
ResetConnection_FlagsOnly(c) ==
    [c EXCEPT !.connected = FALSE, !.connecting = FALSE]

ResetConnection(c) == BaselineConn

DisconnectState_ResetsPermission(s) ==
    [s EXCEPT !.isConnected = FALSE, !.isConnecting = FALSE,
              !.isListening = FALSE, !.isSpeaking = FALSE, !.error = NoError,
              !.hasPermission = FALSE]

DisconnectState_ClearsHistory(s) ==
    [s EXCEPT !.isConnected = FALSE, !.isConnecting = FALSE,
              !.isListening = FALSE, !.isSpeaking = FALSE, !.error = NoError,
              !.conversationHistory = <<>>]

DisconnectState(s) ==
    [s EXCEPT !.isConnected = FALSE, !.isConnecting = FALSE,
              !.isListening = FALSE, !.isSpeaking = FALSE, !.error = NoError]

\* RTCPeerConnection.close(): the connection and its data channel are closed;
\* a channel that was not closed yet has its close event outstanding.
ClosedChannel(d) ==
    IF d \in {"connecting", "open"} THEN "closing" ELSE d

SendClientEvent_IgnoresReadyState(c, dcs, event) ==
    IF c.dataChannel # NULL
    THEN <<[ch |-> c.dataChannel, event |-> event]>>
    ELSE <<>>

\* sendClientEvent: the event goes out on the channel held in c when that
\* channel is open, and nowhere otherwise.
SendClientEvent(c, dcs, event) ==
    IF c.dataChannel # NULL /\ dcs[c.dataChannel] = "open"
    THEN <<[ch |-> c.dataChannel, event |-> event]>>
    ELSE <<>>

\* RTCDataChannel.send: each emitted event is appended to its channel's
\* ordered stream.
RECURSIVE Transmit(_, _)
Transmit(w, sent) ==
    IF sent = <<>> THEN w
    ELSE Transmit([w EXCEPT ![Head(sent).ch] = Append(@, Head(sent).event)],
                  Tail(sent))

\* handleServerEvent, 'response.done': the text of the first 'text' part of
\* the first assistant item; "" when there is none (undefined and the empty
\* string are both falsy in the test that follows).
IsAssistant(item) == item.role = "assistant"

IsTextPart(part) == part.type = "text"

\* Array.prototype.find: the index of the first match, 0 when none matches.
FirstAssistant(output) ==
    LET hits == {i \in 1..Len(output) : IsAssistant(output[i])} IN
    IF hits = {} THEN 0 ELSE CHOOSE i \in hits : \A j \in hits : i <= j

FirstTextPart(content) ==
    LET hits == {i \in 1..Len(content) : IsTextPart(content[i])} IN
    IF hits = {} THEN 0 ELSE CHOOSE i \in hits : \A j \in hits : i <= j

TextContent(output) ==
    LET i == FirstAssistant(output) IN
    IF i = 0 THEN ""
    ELSE LET k == FirstTextPart(output[i].content) IN
         IF k = 0 THEN "" ELSE output[i].content[k].text

\* handleServerEvent, 'error': the message shown and reported.
ErrorMessage_MessageOnly(e) == e.message

ErrorMessage(e) == e.type \o ": " \o e.message

\* handleServerEvent: the setState of single cases.
ResponseDoneState_KeepsSpeaking(s) == s

ResponseDoneState(s) == [s EXCEPT !.isSpeaking = FALSE]

SpeechStartedState_Exclusive(s) ==
    [s EXCEPT !.isListening = TRUE, !.isSpeaking = FALSE]

SpeechStartedState(s) == [s EXCEPT !.isListening = TRUE]

\* Event types whose case only logs, and one type that has no case.
IgnoredTypes == {"session.created", "session.updated", "rate_limits.updated"}

TextDeltaState_Replaces(s, delta) == [s EXCEPT !.currentResponse = delta]

\* response.text.delta: the delta is appended to currentResponse.
TextDeltaState(s, delta) == [s EXCEPT !.currentResponse = @ \o delta]

HandleServerEvent_UnknownIsError(s, ev) ==
    CASE ev.type = "conversation.item.created" ->
            [s EXCEPT !.conversationHistory = Append(@, ev.item)]
      [] ev.type = "response.created" -> [s EXCEPT !.isSpeaking = TRUE]
      [] ev.type = "response.done" -> ResponseDoneState(s)
      [] ev.type = "response.text.delta" ->
            TextDeltaState(s, ev.delta)
      [] ev.type = "input_audio_buffer.speech_started" ->
            SpeechStartedState(s)
      [] ev.type = "input_audio_buffer.speech_stopped" ->
            [s EXCEPT !.isListening = FALSE]
      [] ev.type = "error" -> [s EXCEPT !.error = ErrorMessage(ev.error)]
      [] OTHER -> [s EXCEPT !.error = "Unknown event"]

\* handleServerEvent: the setState of each case.
HandleServerEvent(s, ev) ==
    CASE ev.type = "conversation.item.created" ->
            [s EXCEPT !.conversationHistory = Append(@, ev.item)]
      [] ev.type = "response.created" -> [s EXCEPT !.isSpeaking = TRUE]
      [] ev.type = "response.done" -> ResponseDoneState(s)
      [] ev.type = "response.text.delta" ->
            TextDeltaState(s, ev.delta)
      [] ev.type = "input_audio_buffer.speech_started" ->
            SpeechStartedState(s)
      [] ev.type = "input_audio_buffer.speech_stopped" ->
            [s EXCEPT !.isListening = FALSE]
      [] ev.type = "error" -> [s EXCEPT !.error = ErrorMessage(ev.error)]
      [] OTHER -> s

\* handleServerEvent: the callbacks each case invokes.
HandleNotes(ev) ==
    CASE ev.type = "response.done" ->
            IF TextContent(ev.output) # "" THEN <<"responseReceived">>
            ELSE <<>>
      [] ev.type = "input_audio_buffer.speech_started" -> <<"speechStarted">>
      [] ev.type = "input_audio_buffer.speech_stopped" -> <<"speechStopped">>
      [] ev.type = "error" -> <<"error">>
      [] OTHER -> <<>>

\* handleServerEvent: what onResponseReceived is called with.
HandleResponses(r, ev) ==
    IF ev.type = "response.done" /\ TextContent(ev.output) # ""
    THEN Append(r, TextContent(ev.output))
    ELSE r

\* dc.onmessage with a payload that is not a well-formed event: text that
\* JSON.parse rejects, or an event of a known type without the field its
\* case reads.
Malformed ==
    {"not JSON", "response.done without response",
     "error without error", "conversation.item.created without item"}

\* Whether the try block throws on the payload (into the catch of
\* dc.onmessage): JSON.parse, event.response.output.find and
\* event.error.type throw; appending event.item (undefined) does not.
MalformedThrows(m) == m # "conversation.item.created without item"

\* The setState calls made before the throw, or by the whole case when
\* nothing throws.  'response.done' sets isSpeaking before it reads the
\* response; 'error' builds the message before it calls setState.
MalformedState(s, m) ==
    CASE m = "response.done without response" -> ResponseDoneState(s)
      [] m = "conversation.item.created without item" ->
            [s EXCEPT !.conversationHistory = Append(@, NoItem)]
      [] OTHER -> s

\* sendMessage: the item built from the text, and the two events sent.
UserItem(text) == Message("user", "input_text", text)

SendMessageEvents_ResponseFirst(text) ==
    <<ClientEvent("response.create", NoItem),
      ClientEvent("conversation.item.create", UserItem(text))>>

SendMessageEvents(text) ==
    <<ClientEvent("conversation.item.create", UserItem(text)),
      ClientEvent("response.create", NoItem)>>

SendMessageState_Prepends(s, text) ==
    [s EXCEPT !.conversationHistory = <<UserItem(text)>> \o @]

SendMessageState(s, text) ==
    [s EXCEPT !.conversationHistory = Append(@, UserItem(text))]

\* The auto-connect effect: its test, and the values of its dependencies
\* that change between renders.
AutoConnectWanted_Unguarded(auto, attempted, s) ==
    auto /\ ~s.isConnected /\ ~s.isConnecting

AutoConnectWanted(auto, attempted, s) ==
    auto /\ ~attempted /\ ~s.isConnected /\ ~s.isConnecting

EffectDeps(s) == <<s.isConnected, s.isConnecting>>

\* clearConversation
ClearState(s) ==
    [s EXCEPT !.conversationHistory = <<>>, !.currentResponse = ""]

----------------------------------------------------------------------------
\* The remote peer's scripted exchange has not started.
ScriptStart == [pos |-> 0, item |-> NoItem, text |-> ""]

\* The hook after its first render, with the given autoConnect option.
InitHook(auto) ==
    /\ conn = BaselineConn
    /\ state = InitialState
    /\ autoConnectAttempted = FALSE
    /\ att = [a \in Attempts |-> InitAttempt]
    /\ nextAttempt = 0
    /\ pcState = [a \in Attempts |-> "none"]
    /\ dcState = [a \in Attempts |-> "none"]
    /\ track = [a \in Attempts |-> "none"]
    /\ audioSrc = [a \in Attempts |-> "none"]
    /\ enabled = [a \in Attempts |-> FALSE]
    /\ wire = [a \in Attempts |-> <<>>]
    /\ isMuted = FALSE
    /\ responses = <<>>
    /\ autoConnect = auto
    /\ effectDeps = <<>>
    /\ script = ScriptStart
    /\ announced = FALSE
    /\ op = Op("init", NULL)

Init == InitHook(FALSE)

\* connect() called while the guard holds: early return.
ConnectNoop ==
    /\ ConnectGuard(conn)
    /\ op' = Op("connect", NULL)
    /\ UNCHANGED <<conn, state, autoConnectAttempted, att, nextAttempt, objs>>
    /\ UNCHANGED hook

\* connect() passing the guard, up to the await of getEphemeralToken().
StartAttempt(a, auto) ==
    /\ nextAttempt' = a
    /\ state' = ConnectStartState(state)
    /\ conn' = ConnectStartConn(conn)
    /\ att' = [att EXCEPT ![a].pc = "getEphemeralToken", ![a].auto = auto]

ConnectStart ==
    /\ ~ConnectGuard(conn)
    /\ nextAttempt < MaxAttempts
    /\ StartAttempt(nextAttempt + 1, FALSE)
    /\ op' = [Op("connect", nextAttempt + 1) EXCEPT !.steps = ConnectSteps]
    /\ UNCHANGED <<autoConnectAttempted, objs, hook>>

\* The outer catch block of connect(), entered by attempt a with message msg.
Catch(a, name, msg) ==
    /\ conn' = CatchConn(conn)
    /\ state' = CatchState(state, msg)
    /\ att' = [att EXCEPT ![a].pc = "failed"]
    /\ op' = [Op(name, a) EXCEPT !.notes = <<"error">>]
    /\ UNCHANGED <<autoConnectAttempted, nextAttempt, hook>>

\* getEphemeralToken() resolved: peer connection and audio element created,
\* transceiver added, getUserMedia() called.
TokenOk(a) ==
    /\ att[a].pc = "getEphemeralToken"
    /\ pcState' = [pcState EXCEPT ![a] = "open"]
    /\ audioSrc' = [audioSrc EXCEPT ![a] = "null"]
    /\ conn' = [conn EXCEPT !.peerConnection = a, !.audioElement = a]
    /\ att' = [att EXCEPT ![a].pc = "getUserMedia"]
    /\ op' = [Op("tokenOk", a) EXCEPT !.steps = TokenOkSteps]
    /\ UNCHANGED <<state, autoConnectAttempted, nextAttempt, dcState, track,
                   enabled, wire, hook>>

TokenFail_Retries(a) ==
    /\ att[a].pc = "getEphemeralToken"
    /\ op' = [Op("tokenFail", a) EXCEPT !.steps = ConnectSteps]
    /\ UNCHANGED <<conn, state, att, autoConnectAttempted, nextAttempt,
                   objs, hook>>

\* getEphemeralToken() rejected: fetch failed, or a non-ok response.
TokenFail(a) ==
    /\ att[a].pc = "getEphemeralToken"
    /\ Catch(a, "tokenFail", ErrToken)
    /\ UNCHANGED objs

\* getUserMedia() resolved.  The stream is stored, permission recorded, and
\* the data channel is created; createDataChannel throws on a closed peer
\* connection, which lands in the outer catch.
GumOk(a) ==
    /\ att[a].pc = "getUserMedia"
    /\ track' = [track EXCEPT ![a] = "live"]
    /\ enabled' = [enabled EXCEPT ![a] = TRUE]
    /\ IF pcState[a] = "closed"
       THEN /\ conn' = CatchConn([conn EXCEPT !.localStream = a])
            /\ state' = CatchState([state EXCEPT !.hasPermission = TRUE],
                                   ErrInvalidState)
            /\ att' = [att EXCEPT ![a].pc = "failed"]
            /\ op' = [Op("gumOk", a) EXCEPT !.notes = <<"error">>]
            /\ UNCHANGED dcState
       ELSE /\ conn' = [conn EXCEPT !.localStream = a, !.dataChannel = a]
            /\ state' = [state EXCEPT !.hasPermission = TRUE]
            /\ dcState' = [dcState EXCEPT ![a] = "connecting"]
            /\ att' = [att EXCEPT ![a].pc = "createOffer"]
            /\ op' = [Op("gumOk", a) EXCEPT !.steps = GumOkSteps]
    /\ UNCHANGED <<autoConnectAttempted, nextAttempt, pcState, audioSrc,
                   wire, hook>>

GumFail_CreatesChannel(a) ==
    /\ att[a].pc = "getUserMedia"
    /\ state' = GumFailState(state)
    /\ att' = [att EXCEPT ![a].pc = "denied"]
    /\ dcState' = [dcState EXCEPT ![a] = "connecting"]
    /\ op' = [Op("gumFail", a) EXCEPT !.steps = <<"createDataChannel">>]
    /\ UNCHANGED <<conn, autoConnectAttempted, nextAttempt, pcState, track,
                   audioSrc, enabled, wire, hook>>

\* getUserMedia() rejected: the inner catch records the error and returns.
GumFail(a) ==
    /\ att[a].pc = "getUserMedia"
    /\ state' = GumFailState(state)
    /\ att' = [att EXCEPT ![a].pc = "denied"]
    /\ op' = Op("gumFail", a)
    /\ UNCHANGED <<conn, autoConnectAttempted, nextAttempt, objs, hook>>

\* pc.createOffer() resolved; setLocalDescription(offer) called.
OfferOk(a) ==
    /\ att[a].pc = "createOffer"
    /\ pcState[a] = "open"
    /\ att' = [att EXCEPT ![a].pc = "setLocalDescription"]
    /\ op' = [Op("offerOk", a) EXCEPT !.steps = OfferOkSteps]
    /\ UNCHANGED <<conn, state, autoConnectAttempted, nextAttempt, objs, hook>>

OfferFail(a) ==
    /\ att[a].pc = "createOffer"
    /\ Catch(a, "offerFail",
             IF pcState[a] = "closed" THEN ErrInvalidState ELSE ErrOperation)
    /\ UNCHANGED objs

\* setLocalDescription() resolved.  When gathering is already complete the
\* SDP request is sent at once, otherwise the attempt waits for the
\* icegatheringstatechange event.
SetLocalOk(a) ==
    /\ att[a].pc = "setLocalDescription"
    /\ pcState[a] = "open"
    /\ \E complete \in BOOLEAN :
         /\ att' = [att EXCEPT ![a].pc =
                       IF complete THEN "sdpFetch" ELSE "iceGathering"]
         /\ op' = [Op("setLocalOk", a) EXCEPT
                     !.steps = IF complete THEN PostOfferSteps ELSE <<>>]
    /\ UNCHANGED <<conn, state, autoConnectAttempted, nextAttempt, objs, hook>>

SetLocalFail(a) ==
    /\ att[a].pc = "setLocalDescription"
    /\ Catch(a, "setLocalFail",
             IF pcState[a] = "closed" THEN ErrInvalidState ELSE ErrOperation)
    /\ UNCHANGED objs

\* iceGatheringState reached 'complete': the SDP offer is posted.  A closed
\* peer connection fires no such event, and the promise has no reject path.
IceComplete(a) ==
    /\ att[a].pc = "iceGathering"
    /\ pcState[a] = "open"
    /\ att' = [att EXCEPT ![a].pc = "sdpFetch"]
    /\ op' = [Op("iceComplete", a) EXCEPT !.steps = PostOfferSteps]
    /\ UNCHANGED <<conn, state, autoConnectAttempted, nextAttempt, objs, hook>>

\* The SDP response was ok and its text read: setRemoteDescription called.
SdpOk(a) ==
    /\ att[a].pc = "sdpFetch"
    /\ att' = [att EXCEPT ![a].pc = "setRemoteDescription"]
    /\ op' = [Op("sdpOk", a) EXCEPT !.steps = SdpOkSteps]
    /\ UNCHANGED <<conn, state, autoConnectAttempted, nextAttempt, objs, hook>>

\* The SDP request failed or the response was not ok.
SdpFail(a) ==
    /\ att[a].pc = "sdpFetch"
    /\ Catch(a, "sdpFail", ErrSdp)
    /\ UNCHANGED objs

\* The signaling endpoint answered with a status that is not ok; the body
\* text is read (an unreadable body counts as empty) and the error thrown.
SdpRejected(a, status, errText) ==
    /\ att[a].pc = "sdpFetch"
    /\ Catch(a, "sdpFail", SdpErrorMessage(status, errText))
    /\ UNCHANGED objs

\* The SDP request itself failed: fetch rejected.
SdpUnreachable(a) ==
    /\ att[a].pc = "sdpFetch"
    /\ Catch(a, "sdpUnreachable", ErrFetch)
    /\ UNCHANGED objs

\* setRemoteDescription() resolved: connect() returns.
SetRemoteOk(a) ==
    /\ att[a].pc = "setRemoteDescription"
    /\ pcState[a] = "open"
    /\ att' = [att EXCEPT ![a].pc = "done"]
    /\ op' = Op("setRemoteOk", a)
    /\ UNCHANGED <<conn, state, autoConnectAttempted, nextAttempt, objs, hook>>

SetRemoteFail(a) ==
    /\ att[a].pc = "setRemoteDescription"
    /\ Catch(a, "setRemoteFail",
             IF pcState[a] = "closed" THEN ErrInvalidState ELSE ErrOperation)
    /\ UNCHANGED objs

\* pc.ontrack with the remote audio track: audioEl.srcObject = stream.
OnTrack(a) ==
    /\ att[a].pc = "done"
    /\ pcState[a] = "open"
    /\ audioSrc[a] = "null"
    /\ audioSrc' = [audioSrc EXCEPT ![a] = "stream"]
    /\ op' = Op("ontrack", a)
    /\ UNCHANGED <<conn, state, autoConnectAttempted, att, nextAttempt,
                   pcState, dcState, track, enabled, wire, hook>>

\* dc.onopen of attempt a's channel.
DcOpen(a) ==
    /\ att[a].pc = "done"
    /\ pcState[a] = "open"
    /\ dcState[a] = "connecting"
    /\ dcState' = [dcState EXCEPT ![a] = "open"]
    /\ conn' = OnOpenConn(conn)
    /\ state' = OnOpenState(state)
    /\ LET sent == SendClientEvent(conn', dcState', SessionUpdate) IN
        /\ wire' = Transmit(wire, sent)
        /\ op' = [Op("dcOpen", a) EXCEPT
                    !.notes = <<"connected">>, !.sent = sent]
    /\ announced' = TRUE
    /\ UNCHANGED <<autoConnectAttempted, att, nextAttempt,
                   pcState, track, audioSrc, enabled,
                   isMuted, responses, autoConnect, effectDeps, script>>

\* dc.onclose
OnClose(a, name) ==
    /\ dcState' = [dcState EXCEPT ![a] = "closed"]
    /\ conn' = OnCloseConn(conn)
    /\ state' = OnCloseState(state)
    /\ op' = [Op(name, a) EXCEPT !.notes = <<"disconnected">>]
    /\ announced' = FALSE
    /\ UNCHANGED <<autoConnectAttempted, att, nextAttempt,
                   pcState, track, audioSrc, enabled, wire,
                   isMuted, responses, autoConnect, effectDeps, script>>

\* The remote peer closes attempt a's open channel.
DcRemoteClose(a) ==
    /\ dcState[a] = "open"
    /\ OnClose(a, "dcRemoteClose")

\* The close event of a channel that was closed locally is delivered.
DcCloseEvent(a) ==
    /\ dcState[a] = "closing"
    /\ OnClose(a, "dcCloseEvent")

Teardown_KeepsGuard(name) ==
    /\ dcState' = [d \in Attempts |->
                     IF d = conn.dataChannel \/ d = conn.peerConnection
                     THEN ClosedChannel(dcState[d]) ELSE dcState[d]]
    /\ pcState' = [p \in Attempts |->
                     IF p = conn.peerConnection THEN "closed" ELSE pcState[p]]
    /\ track' = [t \in Attempts |->
                     IF t = conn.localStream THEN "ended" ELSE track[t]]
    /\ audioSrc' = [e \in Attempts |->
                     IF e = conn.audioElement /\ audioSrc[e] = "stream"
                     THEN "detached" ELSE audioSrc[e]]
    /\ conn' = ResetConnection(conn)
    /\ UNCHANGED autoConnectAttempted
    /\ state' = DisconnectState(state)
    /\ att' = [a \in Attempts |->
                 IF att[a].pc \in Suspended
                 THEN [att[a] EXCEPT !.cancelled = TRUE] ELSE att[a]]
    /\ op' = [Op(name, NULL) EXCEPT
                !.again = (op.name \in {"disconnect", "unmount"}),
                !.notes = <<"disconnected">>,
                !.steps = DisconnectSteps(conn)]
    /\ announced' = FALSE
    /\ UNCHANGED <<nextAttempt, enabled, wire,
                   isMuted, responses, autoConnect, effectDeps, script>>

\* The body of disconnect(), run by the task called name.
Teardown(name) ==
    /\ dcState' = [d \in Attempts |->
                     IF d = conn.dataChannel \/ d = conn.peerConnection
                     THEN ClosedChannel(dcState[d]) ELSE dcState[d]]
    /\ pcState' = [p \in Attempts |->
                     IF p = conn.peerConnection THEN "closed" ELSE pcState[p]]
    /\ track' = [t \in Attempts |->
                     IF t = conn.localStream THEN "ended" ELSE track[t]]
    /\ audioSrc' = [e \in Attempts |->
                     IF e = conn.audioElement /\ audioSrc[e] = "stream"
                     THEN "detached" ELSE audioSrc[e]]
    /\ conn' = ResetConnection(conn)
    /\ autoConnectAttempted' = FALSE
    /\ state' = DisconnectState(state)
    /\ att' = [a \in Attempts |->
                 IF att[a].pc \in Suspended
                 THEN [att[a] EXCEPT !.cancelled = TRUE] ELSE att[a]]
    /\ op' = [Op(name, NULL) EXCEPT
                !.again = (op.name \in {"disconnect", "unmount"}),
                !.notes = <<"disconnected">>,
                !.steps = DisconnectSteps(conn)]
    /\ announced' = FALSE
    /\ UNCHANGED <<nextAttempt, enabled, wire,
                   isMuted, responses, autoConnect, effectDeps, script>>

\* disconnect()
Disconnect == Teardown("disconnect")

\* The cleanup of the unmount effect: disconnectRef.current(), which is
\* disconnect(); audioContextRef is never assigned, so there is no audio
\* context to close.
Unmount == Teardown("unmount")

Next ==
    \/ ConnectNoop
    \/ ConnectStart
    \/ Disconnect
    \/ \E a \in Attempts :
        \/ TokenOk(a)
        \/ TokenFail(a)
        \/ GumOk(a)
        \/ GumFail(a)
        \/ OfferOk(a)
        \/ OfferFail(a)
        \/ SetLocalOk(a)
        \/ SetLocalFail(a)
        \/ IceComplete(a)
        \/ SdpOk(a)
        \/ SdpFail(a)
        \/ SetRemoteOk(a)
        \/ SetRemoteFail(a)
        \/ OnTrack(a)
        \/ DcOpen(a)
        \/ DcRemoteClose(a)
        \/ DcCloseEvent(a)

Spec == Init /\ [][Next]_vars

\* dc.onmessage of attempt a's channel with a well-formed event.
Deliver(a, ev) ==
    /\ dcState[a] = "open"
    /\ Len(HandleServerEvent(state, ev).conversationHistory) <= MaxHistory
    /\ Len(HandleServerEvent(state, ev).currentResponse) <= MaxResponseLen
    /\ Len(HandleResponses(responses, ev)) <= MaxResponses
    /\ state' = HandleServerEvent(state, ev)
    /\ responses' = HandleResponses(responses, ev)
    /\ op' = [Op("onmessage", a) EXCEPT !.notes = HandleNotes(ev)]
    /\ UNCHANGED <<conn, autoConnectAttempted, att, nextAttempt, objs,
                   isMuted, autoConnect, effectDeps, announced>>

\* dc.onmessage of attempt a's channel with a malformed payload.
OnMalformed(a, m) ==
    /\ dcState[a] = "open"
    /\ Len(MalformedState(state, m).conversationHistory) <= MaxHistory
    /\ state' = MalformedState(state, m)
    /\ op' = [Op("onmessage", a) EXCEPT
                !.notes = IF MalformedThrows(m) THEN <<"caught">> ELSE <<>>]
    /\ UNCHANGED <<conn, autoConnectAttempted, att, nextAttempt, objs, hook>>

\* An event the remote peer sends at a time of its choosing.
OnMessage(a, ev) == Deliver(a, ev) /\ UNCHANGED script

\* The remote peer's scripted exchange on a fresh session: session.created,
\* conversation.item.created, response.created, one or more
\* response.text.delta, response.done with one assistant item that carries a
\* text.
ScriptTexts == {"Hello", "Hi", ""}

ScriptOutputs(t) ==
    {<<AssistantText(t)>>,
     <<[type |-> "message", role |-> "assistant",
        content |-> <<[type |-> "audio", text |-> ""],
                      [type |-> "text", text |-> t]>>]>>}

Feed(a) ==
    \/ /\ script.pos = 0
       /\ Deliver(a, PlainEvent("session.created"))
       /\ script' = [script EXCEPT !.pos = 1]
    \/ /\ script.pos = 1
       /\ \E i \in ServerItems :
            /\ Deliver(a, ItemCreated(i))
            /\ script' = [script EXCEPT !.pos = 2, !.item = i]
    \/ /\ script.pos = 2
       /\ Deliver(a, PlainEvent("response.created"))
       /\ script' = [script EXCEPT !.pos = 3]
    \/ /\ script.pos \in {3, 4}
       /\ \E d \in Deltas : Deliver(a, TextDelta(d))
       /\ script' = [script EXCEPT !.pos = 4]
    \/ /\ script.pos = 4
       /\ \E t \in ScriptTexts : \E o \in ScriptOutputs(t) :
            /\ Deliver(a, ResponseDone(o))
            /\ script' = [script EXCEPT !.pos = 5, !.text = t]

\* The auto-connect effect, run after a render that changed one of its
\* dependencies (and after the first render).
EffectPending == effectDeps # EffectDeps(state)

AutoConnectEffect ==
    /\ EffectPending
    /\ effectDeps' = EffectDeps(state)
    /\ IF AutoConnectWanted(autoConnect, autoConnectAttempted, state)
       THEN /\ autoConnectAttempted' = TRUE
            /\ IF ConnectGuard(conn)
               THEN /\ op' = Op("autoConnect", NULL)
                    /\ UNCHANGED <<conn, state, att, nextAttempt>>
               ELSE /\ nextAttempt < MaxAttempts
                    /\ StartAttempt(nextAttempt + 1, TRUE)
                    /\ op' = [Op("autoConnect", nextAttempt + 1) EXCEPT
                                !.steps = ConnectSteps]
       ELSE /\ op' = Op("effect", NULL)
            /\ UNCHANGED <<conn, state, autoConnectAttempted, att,
                           nextAttempt>>
    /\ UNCHANGED <<objs, isMuted, responses, autoConnect, script, announced>>

\* sendMessage(text)
SendMessage(text) ==
    /\ IF ~conn.connected
       THEN /\ op' = Op("sendMessage", NULL)
            /\ UNCHANGED <<state, wire>>
       ELSE LET sent == SendClientEvent(conn, dcState,
                                        SendMessageEvents(text)[1])
                        \o SendClientEvent(conn, dcState,
                                           SendMessageEvents(text)[2]) IN
            /\ Len(state.conversationHistory) < MaxHistory
            /\ \A i \in 1..Len(sent) : Len(wire[sent[i].ch]) + 2 <= MaxWire
            /\ wire' = Transmit(wire, sent)
            /\ state' = SendMessageState(state, text)
            /\ op' = [Op("sendMessage", conn.dataChannel) EXCEPT
                        !.sent = sent]
    /\ UNCHANGED <<conn, autoConnectAttempted, att, nextAttempt,
                   pcState, dcState, track, audioSrc, enabled, hook>>

ToggleMute_StopsTrack ==
    /\ IF conn.localStream # NULL
       THEN /\ isMuted' = ~isMuted
            /\ enabled' = [enabled EXCEPT ![conn.localStream] = ~isMuted']
            /\ track' = [track EXCEPT ![conn.localStream] =
                            IF isMuted' THEN "ended" ELSE @]
       ELSE UNCHANGED <<isMuted, enabled, track>>
    /\ op' = Op("toggleMute", conn.localStream)
    /\ UNCHANGED <<conn, state, autoConnectAttempted, att, nextAttempt,
                   pcState, dcState, audioSrc, wire,
                   responses, autoConnect, effectDeps, script, announced>>

\* toggleMute()
ToggleMute ==
    /\ IF conn.localStream # NULL
       THEN /\ isMuted' = ~isMuted
            /\ enabled' = [enabled EXCEPT ![conn.localStream] = ~isMuted']
       ELSE UNCHANGED <<isMuted, enabled>>
    /\ op' = Op("toggleMute", conn.localStream)
    /\ UNCHANGED <<conn, state, autoConnectAttempted, att, nextAttempt,
                   pcState, dcState, track, audioSrc, wire,
                   responses, autoConnect, effectDeps, script, announced>>

\* clearConversation()
ClearConversation ==
    /\ state' = ClearState(state)
    /\ op' = Op("clearConversation", NULL)
    /\ UNCHANGED <<conn, autoConnectAttempted, att, nextAttempt, objs, hook>>

\* No connect() invocation is suspended on an await.
Quiet == \A a \in Attempts : att[a].pc \notin Suspended

\* Sessions that run one after the other: every awaited operation of
\* connect() succeeds and disconnect() is called only while no connect()
\* invocation is suspended.
Lifecycle ==
    \/ ConnectStart
    \/ Quiet /\ Disconnect
    \/ \E a \in Attempts :
        \/ TokenOk(a)
        \/ GumOk(a)
        \/ OfferOk(a)
        \/ SetLocalOk(a)
        \/ IceComplete(a)
        \/ SdpOk(a)
        \/ SetRemoteOk(a)
        \/ DcOpen(a)
        \/ DcRemoteClose(a)
        \/ DcCloseEvent(a)

\* Sessions whose awaited operations may fail, torn down at any point by
\* disconnect() or by the unmount cleanup; a new connect() is called only
\* while no earlier invocation is suspended.
TeardownNext ==
    \/ Quiet /\ ConnectStart
    \/ Disconnect
    \/ Unmount
    \/ \E a \in Attempts :
        \/ TokenOk(a)
        \/ TokenFail(a)
        \/ GumOk(a)
        \/ GumFail(a)
        \/ OfferOk(a)
        \/ OfferFail(a)
        \/ SetLocalOk(a)
        \/ SetLocalFail(a)
        \/ IceComplete(a)
        \/ SdpOk(a)
        \/ SdpFail(a)
        \/ SetRemoteOk(a)
        \/ SetRemoteFail(a)
        \/ OnTrack(a)
        \/ DcOpen(a)
        \/ DcRemoteClose(a)
        \/ DcCloseEvent(a)

TeardownSpec == Init /\ [][TeardownNext]_vars

\* Sessions one after the other in which each awaited operation of the
\* handshake may fail.
HandshakeNext ==
    \/ Lifecycle
    \/ \E a \in Attempts :
        \/ TokenFail(a)
        \/ GumFail(a)
        \/ OfferFail(a)
        \/ SetLocalFail(a)
        \/ SdpUnreachable(a)
        \/ \E status \in HttpStatuses, errText \in ErrorBodies :
              SdpRejected(a, status, errText)
        \/ SetRemoteFail(a)

HandshakeSpec == Init /\ [][HandshakeNext]_vars

\* Such sessions with everything that writes conversationHistory: items
\* announced by the remote peer, texts the user submits, and
\* clearConversation().
HistoryNext ==
    \/ Lifecycle
    \/ ClearConversation
    \/ \E text \in Texts : SendMessage(text)
    \/ \E a \in Attempts, item \in ServerItems : OnMessage(a, ItemCreated(item))

HistorySpec == Init /\ [][HistoryNext]_vars

\* Such sessions with well-formed and malformed payloads arriving on the
\* open channel.
MessageNext ==
    \/ Lifecycle
    \/ \E a \in Attempts :
        \/ OnMessage(a, PlainEvent("response.created"))
        \/ \E item \in ServerItems : OnMessage(a, ItemCreated(item))
        \/ \E m \in Malformed : OnMalformed(a, m)

MessageSpec == Init /\ [][MessageNext]_vars

\* Such sessions in which the remote peer sends events that the handler
\* ignores, between reports of speech.
IgnoredNext ==
    \/ Lifecycle
    \/ \E a \in Attempts :
        \/ OnMessage(a, PlainEvent("input_audio_buffer.speech_started"))
        \/ \E t \in IgnoredTypes : OnMessage(a, PlainEvent(t))

IgnoredSpec == Init /\ [][IgnoredNext]_vars

LifecycleSpec == Init /\ [][Lifecycle]_vars

\* Such sessions with the remote peer sending events on the open channel.
SessionNext ==
    \/ Lifecycle
    \/ ClearConversation
    \/ \E a \in Attempts, ev \in ServerEvents : OnMessage(a, ev)

SessionSpec == Init /\ [][SessionNext]_vars

\* Such sessions with the user submitting texts.
SendNext ==
    \/ Lifecycle
    \/ ClearConversation
    \/ \E text \in Texts : SendMessage(text)

SendSpec == Init /\ [][SendNext]_vars

\* One session of the remote peer's scripted exchange.
ScenarioNext ==
    \/ ConnectStart
    \/ \E a \in Attempts :
        \/ TokenOk(a)
        \/ GumOk(a)
        \/ OfferOk(a)
        \/ SetLocalOk(a)
        \/ IceComplete(a)
        \/ SdpOk(a)
        \/ SetRemoteOk(a)
        \/ OnTrack(a)
        \/ DcOpen(a)
        \/ Feed(a)

ScenarioSpec == Init /\ [][ScenarioNext]_vars

\* The hook mounted with autoConnect: sessions one after the other whose
\* awaited operations may fail, with manual connect() calls; a pending
\* effect runs before the next task.
AutoNext ==
    \/ AutoConnectEffect
    \/ /\ ~EffectPending
       /\ \/ Lifecycle
          \/ ConnectNoop
          \/ \E a \in Attempts :
                \/ TokenFail(a)
                \/ GumFail(a)
                \/ OfferFail(a)
                \/ SetLocalFail(a)
                \/ SdpFail(a)
                \/ SetRemoteFail(a)

AutoSpec == InitHook(TRUE) /\ [][AutoNext]_vars

\* Such sessions with the user toggling mute.
MuteNext ==
    \/ Lifecycle
    \/ ToggleMute

MuteSpec == Init /\ [][MuteNext]_vars

TypeOK ==
    /\ conn \in [connected : BOOLEAN, connecting : BOOLEAN,
                 peerConnection : Handles, dataChannel : Handles,
                 audioElement : Handles, localStream : Handles]
    /\ state.isConnected \in BOOLEAN /\ state.isConnecting \in BOOLEAN
    /\ nextAttempt \in 0..MaxAttempts
    /\ Len(state.conversationHistory) <= MaxHistory
    /\ Len(state.currentResponse) <= MaxResponseLen
    /\ Len(responses) <= MaxResponses
    /\ isMuted \in BOOLEAN /\ autoConnect \in BOOLEAN
    /\ announced \in BOOLEAN
    /\ script.pos \in 0..5
    /\ \A a \in Attempts :
        /\ att[a].pc \in {"idle"} \cup Suspended \cup Ended
        /\ enabled[a] \in BOOLEAN
        /\ Len(wire[a]) <= MaxWire
        /\ pcState[a] \in {"none", "open", "closed"}
        /\ dcState[a] \in {"none", "connecting", "open", "closing", "closed"}
        /\ track[a] \in {"none", "live", "ended"}
        /\ audioSrc[a] \in {"none", "null", "stream", "detached"}

\* Every awaited operation of a connect() invocation eventually resolves or
\* rejects, and a channel that can open eventually opens.  User calls and
\* remote closes are under no obligation to happen.
Fairness ==
    \A a \in Attempts :
        /\ WF_vars(TokenOk(a) \/ TokenFail(a))
        /\ WF_vars(GumOk(a) \/ GumFail(a))
        /\ WF_vars(OfferOk(a) \/ OfferFail(a))
        /\ WF_vars(SetLocalOk(a) \/ SetLocalFail(a))
        /\ WF_vars(IceComplete(a))
        /\ WF_vars(SdpOk(a) \/ SdpFail(a))
        /\ WF_vars(SetRemoteOk(a) \/ SetRemoteFail(a))
        /\ WF_vars(DcOpen(a))

FairSpec == Spec /\ Fairness

----------------------------------------------------------------------------
\* Vocabulary of the properties

\* The four handles of Connection State.
AllHandlesSet(c) ==
    /\ c.peerConnection # NULL /\ c.dataChannel # NULL
    /\ c.localStream # NULL /\ c.audioElement # NULL

NoHandleSet(c) ==
    /\ c.peerConnection = NULL /\ c.dataChannel = NULL
    /\ c.localStream = NULL /\ c.audioElement = NULL

\* The tasks that are the continuation of a connect() invocation, and the
\* open callback of the channel it created.
ContinuationOps ==
    {"tokenOk", "tokenFail", "gumOk", "gumFail", "offerOk", "offerFail",
     "setLocalOk", "setLocalFail", "iceComplete", "sdpOk", "sdpFail",
     "setRemoteOk", "setRemoteFail", "dcOpen"}

\* The last task was attempt a entering the outer catch of connect().
FailedNow(a) ==
    /\ op.att = a
    /\ op.name \in {"tokenFail", "gumOk", "offerFail", "setLocalFail",
                    "sdpFail", "setRemoteFail"}
    /\ att[a].pc = "failed"

\* The objects attempt a created are released.
Released(a) ==
    /\ pcState[a] # "open"
    /\ dcState[a] \notin {"connecting", "open"}
    /\ track[a] # "live"
    /\ audioSrc[a] # "stream"

----------------------------------------------------------------------------
\* C1: the Connection State flags connected and connecting are never both
\* true, whatever the interleaving of connect(), disconnect(), channel
\* callbacks and connect-path completions.
C1_NeverConnectedAndConnecting == ~(conn.connected /\ conn.connecting)

\* A channel opened while another connect() invocation was still suspended.
C1_Witness ==
    /\ op.name = "dcOpen"
    /\ conn.connected
    /\ \E b \in Attempts : b # op.att /\ att[b].pc \in Suspended

\* C2: connect() called while connecting or connected is true returns at
\* once: no new attempt (so no credential fetch, no peer connection, no
\* negotiation) and no change of Connection State or Voice Interface State.
C2_ConnectWhileBusyIsNoop ==
    [][(op'.name = "connect" /\ (conn.connecting \/ conn.connected))
        => UNCHANGED <<conn, state, autoConnectAttempted, att, nextAttempt,
                       objs>>]_vars

\* connect() has just returned early on an established session.
C2_Witness ==
    /\ op.name = "connect" /\ op.att = NULL
    /\ conn.connected
    /\ nextAttempt < MaxAttempts

\* C3: under Fairness, whenever connecting and isConnecting are true they
\* are eventually false again.
C3_ConnectingNeverStuck ==
    (conn.connecting /\ state.isConnecting)
        ~> (~conn.connecting /\ ~state.isConnecting)

\* C4: right after getUserMedia() failed, isConnected is false,
\* hasPermission is false and Connection State holds no peer connection.
C4_PermissionDenialAbortsCleanly ==
    op.name = "gumFail" =>
        /\ ~state.isConnected
        /\ ~state.hasPermission
        /\ conn.peerConnection = NULL

\* C5: a continuation (or channel open) of a connect() invocation that was
\* suspended when disconnect() ran stores no handle, does not set connected
\* or isConnected, and fires no connected notification.
C5_StaleContinuationDiscarded ==
    [][\A a \in Attempts :
         (att[a].cancelled /\ op'.att = a /\ op'.name \in ContinuationOps)
         => /\ conn'.peerConnection = conn.peerConnection
            /\ conn'.dataChannel = conn.dataChannel
            /\ conn'.localStream = conn.localStream
            /\ conn'.audioElement = conn.audioElement
            /\ (conn'.connected => conn.connected)
            /\ (state'.isConnected => state.isConnected)
            /\ op'.notes # <<"connected">>]_vars

\* C6: at most one connect() invocation is suspended at any time.
C6_AtMostOneAttemptInFlight ==
    Cardinality({a \in Attempts : att[a].pc \in Suspended}) <= 1

\* C7: right after an attempt entered the outer catch of connect(), its
\* channel and peer connection are closed, its microphone track is stopped
\* and Connection State holds none of the four handles.
C7_FailureTearsDown ==
    \A a \in Attempts :
        FailedNow(a) => (NoHandleSet(conn) /\ Released(a))

\* C8: connected implies all four handles are set, and neither connected
\* nor connecting implies all four are unset.
C8_HandlesAllOrNothing ==
    /\ conn.connected => AllHandlesSet(conn)
    /\ (~conn.connected /\ ~conn.connecting) => NoHandleSet(conn)

\* C9: right after the remote peer closed the channel, the session has been
\* torn down: no handle is left and the objects of that session are
\* released.
C9_RemoteCloseTearsDown ==
    op.name = "dcRemoteClose" => (NoHandleSet(conn) /\ Released(op.att))

\* C10: every disconnect() leaves Connection State equal to the baseline,
\* and a disconnect() that starts from the baseline (a second one in a row,
\* or one on a hook that never connected) touches no object.
C10_TeardownIdempotent ==
    [][op'.name = "disconnect"
        => /\ conn' = BaselineConn
           /\ (conn = BaselineConn => UNCHANGED objs)]_vars

\* disconnect() ran twice in a row after a session had been established.
C10_Witness ==
    /\ op.name = "disconnect" /\ op.again
    /\ conn = BaselineConn
    /\ \E a \in Attempts : dcState[a] \in {"closing", "closed"}

----------------------------------------------------------------------------
\* Vocabulary of the properties on events and user operations

\* The channel held in c is open.
ChannelOpen(c, dcs) == c.dataChannel # NULL /\ dcs[c.dataChannel] = "open"

\* Number of session.update events in a channel's stream.
SessionUpdates(w) ==
    Cardinality({i \in 1..Len(w) : w[i].type = "session.update"})

\* C11: a call of sendClientEvent while Connection State holds no channel or
\* a channel that is not open (here the call made by dc.onopen of another
\* channel) puts nothing on any channel, then or later, and emits nothing.
C11_SendWhileClosedIsNoop ==
    [][(op'.name = "dcOpen" /\ ~ChannelOpen(conn', dcState'))
        => (op'.sent = <<>> /\ wire' = wire)]_vars

\* A channel opened while Connection State held none, or one still
\* connecting.
C11_Witness ==
    /\ op.name = "dcOpen"
    /\ ~ChannelOpen(conn, dcState)
    /\ op.sent = <<>>

\* C12: response.created and response.done change only isSpeaking,
\* speech_started and speech_stopped change only isListening, and
\* speech_started during a response leaves both flags true.
C12_SpeakingListeningIndependent ==
    [][\A a \in Attempts :
       \A ev \in {PlainEvent(t) : t \in {"response.created",
                                         "input_audio_buffer.speech_started",
                                         "input_audio_buffer.speech_stopped"}}
                    \cup {ResponseDone(o) : o \in Outputs} :
         OnMessage(a, ev) =>
           /\ ev.type = "response.created"
                => state' = [state EXCEPT !.isSpeaking = TRUE]
           /\ ev.type = "response.done"
                => state' = [state EXCEPT !.isSpeaking = FALSE]
           /\ ev.type = "input_audio_buffer.speech_started"
                => /\ state' = [state EXCEPT !.isListening = TRUE]
                   /\ state.isSpeaking
                        => (state'.isSpeaking /\ state'.isListening)
           /\ ev.type = "input_audio_buffer.speech_stopped"
                => state' = [state EXCEPT !.isListening = FALSE]]_vars

\* speech_started arrived during a response.
C12_Witness ==
    /\ op.name = "onmessage" /\ op.notes = <<"speechStarted">>
    /\ state.isSpeaking /\ state.isListening

\* C13: disconnect() leaves conversationHistory unchanged: the items added by
\* the conversation.item.created events of a session are still there, in
\* order, after disconnect(); a step changes the history only by appending
\* the item of a delivered event, or, in clearConversation(), by resetting
\* it to empty.
C13_HistorySurvivesDisconnect ==
    [][/\ op'.name = "disconnect" =>
            state'.conversationHistory = state.conversationHistory
       /\ (/\ state'.conversationHistory # state.conversationHistory
           /\ op'.name # "clearConversation")
            => /\ op'.name = "onmessage"
               /\ \E item \in ServerItems :
                    state'.conversationHistory =
                        Append(state.conversationHistory, item)
       /\ (/\ state.conversationHistory # <<>>
           /\ state'.conversationHistory = <<>>)
            => op'.name = "clearConversation"]_vars

\* disconnect() has just run on a history of two different items.
C13_Witness ==
    /\ op.name = "disconnect"
    /\ Len(state.conversationHistory) >= 2
    /\ state.conversationHistory[1] # state.conversationHistory[2]
    /\ ~state.isConnected

\* C14 as stated: at the end of the scripted exchange isConnected is true,
\* isSpeaking false, the history is the one mirrored item, error is
\* undefined and onResponseReceived was called once, with the text of the
\* response.done event, whatever that text is.
C14_ScriptedExchange ==
    script.pos = 5 =>
        /\ state.isConnected /\ ~state.isSpeaking
        /\ state.conversationHistory = <<script.item>>
        /\ state.error = NoError
        /\ responses = <<script.text>>

\* C14 amended: the same when the text of the response.done event is not
\* empty.
C14_ScriptedExchangeNonEmpty ==
    (script.pos = 5 /\ script.text # "") =>
        /\ state.isConnected /\ ~state.isSpeaking
        /\ state.conversationHistory = <<script.item>>
        /\ state.error = NoError
        /\ responses = <<script.text>>

\* The scripted exchange ended with the text "Hello" after two deltas.
C14_Witness ==
    /\ script.pos = 5 /\ script.text = "Hello"
    /\ state.currentResponse = "Hello"
    /\ responses = <<"Hello">>

\* C15: toggleMute() leaves Connection State (so the stream handle), the
\* state of every track, Voice Interface State and everything else as they
\* were; only the muted flag and the enabled flag of the held stream's
\* track may change.
C15_MuteOnlyTogglesEnabled ==
    [][op'.name = "toggleMute"
        => /\ UNCHANGED <<conn, state, autoConnectAttempted, att, nextAttempt,
                          pcState, dcState, track, audioSrc, wire, responses>>
           /\ \A a \in Attempts :
                a # conn.localStream => enabled'[a] = enabled[a]]_vars

\* toggleMute() has run an even number of times on a live stream.
C15_Witness ==
    /\ op.name = "toggleMute" /\ op.att # NULL
    /\ conn.localStream = op.att /\ track[op.att] = "live"
    /\ ~isMuted /\ enabled[op.att]

\* C16: an inbound error event sets error to '<type>: <message>', calls
\* onError once and changes nothing else: Connection State, every object
\* and every connect() invocation stay as they were.
C16_RemoteErrorNotFatal ==
    [][\A a \in Attempts, e \in RemoteErrors :
         OnMessage(a, ErrorEvent(e)) =>
           /\ state' = [state EXCEPT !.error = e.type \o ": " \o e.message]
           /\ op'.notes = <<"error">>
           /\ UNCHANGED <<conn, att, nextAttempt, objs>>]_vars

\* An error event arrived on an established session, which is still
\* established.
C16_Witness ==
    /\ op.name = "onmessage" /\ op.notes = <<"error">>
    /\ state.error = "server_error: overloaded"
    /\ conn.connected /\ state.isConnected
    /\ AllHandlesSet(conn)

\* C17: right after any failure of the connect path (outer catch, or
\* getUserMedia failure) the error field holds a message and onError was
\* called.
C17_FailuresRecordedAndReported ==
    \A a \in Attempts :
        (FailedNow(a) \/ (op.name = "gumFail" /\ op.att = a))
            => (state.error # NoError /\ op.notes = <<"error">>)

\* C18 as stated: once an automatic connect attempt has failed, no later
\* connect attempt is an automatic one.
C18_AutoConnectOnce ==
    \A a \in Attempts, b \in Attempts :
        (a < b /\ att[a].auto /\ att[a].pc \in {"failed", "denied"})
            => ~att[b].auto

\* C18 amended: the effect starts an attempt only while the guard is clear
\* and sets the guard; only disconnect() clears the guard, so no automatic
\* attempt follows a failed one until disconnect() is called; and after
\* disconnect() the flags that make connect() return early are clear.
C18_AutoConnectGuarded ==
    [][/\ (op'.name = "autoConnect" /\ op' # op)
            => (~autoConnectAttempted /\ autoConnectAttempted')
       /\ (autoConnectAttempted /\ ~autoConnectAttempted')
            => op'.name = "disconnect"
       /\ op'.name = "disconnect"
            => (~autoConnectAttempted'
                /\ ~conn'.connecting /\ ~conn'.connected)]_vars

\* disconnect() ran after the automatic attempt had failed.
C18_Witness ==
    /\ op.name = "disconnect"
    /\ \E a \in Attempts : att[a].auto /\ att[a].pc = "failed"
    /\ ~autoConnectAttempted

\* C19: every open channel carries exactly one session.update, and it is
\* the first event of the channel's stream.
C19_SessionUpdateOnceAndFirst ==
    \A a \in Attempts :
        dcState[a] = "open" =>
            /\ Len(wire[a]) >= 1
            /\ wire[a][1].type = "session.update"
            /\ SessionUpdates(wire[a]) = 1

\* C20: sendMessage(text) on a connected session whose channel is open
\* appends to that channel's stream conversation.item.create with a user
\* message of one input_text part equal to text, then response.create, and
\* nothing else, so the pairs of several calls follow each other in call
\* order.
C20_SendMessageEmitsPair ==
    [][\A text \in Texts :
         (SendMessage(text) /\ conn.connected /\ ChannelOpen(conn, dcState))
         => LET ch == conn.dataChannel
                pair ==
                  <<[type |-> "conversation.item.create",
                     item |-> [type |-> "message", role |-> "user",
                               content |-> <<[type |-> "input_text",
                                              text |-> text]>>]],
                    [type |-> "response.create", item |-> NoItem]>>
            IN /\ wire'[ch] = wire[ch] \o pair
               /\ \A d \in Attempts : d # ch => wire'[d] = wire[d]
               /\ op'.sent = <<[ch |-> ch, event |-> pair[1]],
                               [ch |-> ch, event |-> pair[2]]>>]_vars

\* Two different texts were sent on one channel.
C20_Witness ==
    \E a \in Attempts :
        /\ Len(wire[a]) = 5
        /\ wire[a][1].type = "session.update"
        /\ wire[a][2].type = "conversation.item.create"
        /\ wire[a][3].type = "response.create"
        /\ wire[a][4].type = "conversation.item.create"
        /\ wire[a][5].type = "response.create"
        /\ wire[a][2].item # wire[a][4].item
\* C21: disconnect() sets isConnected, isConnecting, isListening and
\* isSpeaking to false and error to undefined, and leaves hasPermission,
\* currentResponse and conversationHistory as they were.
C21_DisconnectResetsFiveFields ==
    [][op'.name = "disconnect" =>
         /\ state' = [state EXCEPT !.isConnected = FALSE,
                                   !.isConnecting = FALSE,
                                   !.isListening = FALSE,
                                   !.isSpeaking = FALSE,
                                   !.error = NoError]
         /\ state'.hasPermission = state.hasPermission
         /\ state'.currentResponse = state.currentResponse
         /\ state'.conversationHistory = state.conversationHistory]_vars

\* disconnect() has just run with permission granted, a partial response
\* text and a non-empty history.
C21_Witness ==
    /\ op.name = "disconnect"
    /\ state.hasPermission
    /\ state.currentResponse # ""
    /\ state.conversationHistory # <<>>
    /\ ~state.isConnected /\ ~state.isSpeaking /\ state.error = NoError

\* C27: whenever isConnected is false, isListening and isSpeaking are false.
C27_IndicatorsOffWhenDisconnected ==
    ~state.isConnected => (~state.isListening /\ ~state.isSpeaking)

\* C29: after every task isConnected equals connected and isConnecting
\* equals connecting, in every interleaving of connect(), disconnect(), the
\* channel callbacks, permission denial and connect failures.
C29_FlagsMirrored ==
    /\ state.isConnected = conn.connected
    /\ state.isConnecting = conn.connecting

\* The channel of a connect() invocation that disconnect() interrupted has
\* opened: both pairs of flags report a connection.
C29_Witness ==
    \E a \in Attempts :
        /\ att[a].cancelled
        /\ op.name = "dcOpen" /\ op.att = a
        /\ conn.connected /\ state.isConnected
        /\ ~conn.connecting /\ ~state.isConnecting

\* C22: the close event of a channel that disconnect() closed, delivered
\* while a newer connection is established (connected, its channel open),
\* leaves connected and isConnected true, so that connect() is still
\* rejected by the guard.
C22_StaleCloseLeavesNewSession ==
    [][\A a \in Attempts :
         (/\ DcCloseEvent(a)
          /\ a # conn.dataChannel
          /\ conn.connected /\ state.isConnected
          /\ conn.dataChannel # NULL /\ dcState[conn.dataChannel] = "open")
         => (conn'.connected /\ state'.isConnected
             /\ (conn'.connecting \/ conn'.connected))]_vars

\* C23: disconnect() and the unmount cleanup take the teardown steps in the
\* order side-channel, peer connection, microphone tracks, output sink,
\* baseline Connection State, each of the first four exactly when its handle
\* is set, and only then reset the UI flags and fire the disconnected
\* notification.
C23_TeardownOrder ==
    [][op'.name \in {"disconnect", "unmount"} =>
         LET Step(held, name) == IF held # NULL THEN <<name>> ELSE <<>> IN
         /\ op'.steps =
                Step(conn.dataChannel, "dataChannel.close")
                \o Step(conn.peerConnection, "peerConnection.close")
                \o Step(conn.localStream, "track.stop")
                \o Step(conn.audioElement, "srcObject = null")
                \o <<"resetConnection", "setState", "onDisconnected">>
         /\ conn' = BaselineConn
         /\ ~state'.isConnected /\ ~state'.isConnecting
         /\ op'.notes = <<"disconnected">>]_vars

\* The unmount cleanup has run on a connection that held the peer connection
\* and the output sink only: the steps of the unset handles were skipped.
C23_Witness ==
    /\ op.name = "unmount"
    /\ op.steps = <<"peerConnection.close", "srcObject = null",
                    "resetConnection", "setState", "onDisconnected">>
    /\ conn = BaselineConn

\* C24: a connect attempt goes through the handshake in one order:
\* credential fetch; transceiver requested, then microphone requested;
\* local track added, side-channel created, offer created; offer set as
\* local description; ICE gathering complete; offer posted; remote
\* description applied, and that only after a success response.  After a
\* response that is not ok the attempt fails with a message that contains
\* the status, and the remote description is not applied.
C24_HandshakeOrder ==
    [][\A a \in Attempts :
        LET from == att[a].pc
            to == att'[a].pc
        IN
        /\ from # to =>
            /\ <<from, to>> \in
                 {<<"idle", "getEphemeralToken">>,
                  <<"getEphemeralToken", "getUserMedia">>,
                  <<"getUserMedia", "createOffer">>,
                  <<"createOffer", "setLocalDescription">>,
                  <<"setLocalDescription", "iceGathering">>,
                  <<"setLocalDescription", "sdpFetch">>,
                  <<"iceGathering", "sdpFetch">>,
                  <<"sdpFetch", "setRemoteDescription">>,
                  <<"setRemoteDescription", "done">>}
                 \cup {<<p, "failed">> : p \in Suspended \ {"iceGathering"}}
                 \cup {<<"getUserMedia", "denied">>}
            /\ to = "getEphemeralToken" => op'.steps = <<"fetchToken">>
            /\ to = "getUserMedia" =>
                 op'.steps = <<"newPeerConnection", "addTransceiver",
                               "getUserMedia">>
            /\ to = "createOffer" =>
                 op'.steps = <<"addTrack", "createDataChannel",
                               "createOffer">>
            /\ to = "setLocalDescription" =>
                 op'.steps = <<"setLocalDescription">>
            /\ to = "iceGathering" => op'.steps = <<>>
            /\ to = "sdpFetch" => op'.steps = <<"postOffer">>
            /\ to = "setRemoteDescription" =>
                 op'.name = "sdpOk" /\ op'.steps = <<"setRemoteDescription">>
            /\ to \in Ended => op'.steps = <<>>
        /\ \A status \in HttpStatuses, errText \in ErrorBodies :
             SdpRejected(a, status, errText) =>
               /\ to = "failed"
               /\ \E tail \in {""} \cup {" - " \o t : t \in ErrorBodies} :
                    state'.error =
                        "Failed to connect to OpenAI: " \o status \o tail
               /\ "setRemoteDescription" \notin
                        {op'.steps[i] : i \in 1..Len(op'.steps)}]_vars

\* An attempt failed on a response with status 401 and a body; an earlier
\* attempt completed the handshake.
C24_Witness ==
    \E a, b \in Attempts :
        /\ att[a].pc = "done"
        /\ att[b].pc = "failed"
        /\ op.name = "sdpFail" /\ op.att = b
        /\ state.error = "Failed to connect to OpenAI: 401 - invalid offer"

\* C25: an attempt whose microphone acquisition failed stops there: the
\* failing task and every later task create no side-channel and no offer
\* and post no SDP request for it, and the attempt never resumes.
C25_DenialAbortsBeforeExchange ==
    [][\A a \in Attempts :
         (att[a].pc = "denied" \/ att'[a].pc = "denied") =>
           /\ att'[a].pc = "denied"
           /\ dcState'[a] = "none"
           /\ wire'[a] = <<>>
           /\ op'.att = a =>
                \A i \in 1..Len(op'.steps) :
                    op'.steps[i] \notin {"createDataChannel", "createOffer",
                                         "postOffer", "setRemoteDescription"}]_vars

\* After a denied attempt and a disconnect() a later attempt completed the
\* handshake; the denied attempt still has no side-channel.
C25_Witness ==
    \E a, b \in Attempts :
        /\ att[a].pc = "denied"
        /\ att[b].pc = "done"
        /\ dcState[a] = "none"
        /\ dcState[b] = "open"

\* C26: conversationHistory is append-only: every step leaves it as it is,
\* or appends one item at its end (a conversation.item.created event, or
\* sendMessage() while connected), or empties it (clearConversation()).
C26_HistoryAppendOnly ==
    [][LET old == state.conversationHistory
           new == state'.conversationHistory
       IN
       \/ new = old
       \/ /\ Len(new) = Len(old) + 1
          /\ SubSeq(new, 1, Len(old)) = old
          /\ \/ op'.name = "onmessage"
             \/ op'.name = "sendMessage" /\ conn.connected
       \/ /\ new = <<>>
          /\ op'.name = "clearConversation"]_vars

\* sendMessage() has appended the user's item after an item of the remote
\* peer.
C26_Witness ==
    /\ op.name = "sendMessage"
    /\ Len(state.conversationHistory) = 2
    /\ state.conversationHistory[1].role = "assistant"
    /\ state.conversationHistory[2].role = "user"

\* C28: connected and disconnected notifications alternate, starting with
\* connected: onDisconnected is called only for a session whose onConnected
\* was called and whose disconnect was not reported yet, and onConnected
\* only when no such session is outstanding.
C28_NotificationsPaired ==
    [][LET Fired(n) == \E i \in 1..Len(op'.notes) : op'.notes[i] = n IN
       /\ Fired("disconnected") => announced
       /\ Fired("connected") => ~announced]_vars

\* C30: a malformed payload is dropped: the message handler leaves Voice
\* Interface State and Connection State as they were before the message.
C30_MalformedDropped ==
    [][\A a \in Attempts, m \in Malformed :
         OnMalformed(a, m) => (state' = state /\ conn' = conn)]_vars

\* C31: session.created, session.updated and an event of a type without a
\* case leave Voice Interface State and Connection State unchanged, call no
\* callback and send nothing.
C31_IgnoredEventsChangeNothing ==
    [][\A a \in Attempts :
       \A t \in {"session.created", "session.updated", "rate_limits.updated"} :
         OnMessage(a, PlainEvent(t)) =>
           /\ state' = state
           /\ conn' = conn
           /\ op'.notes = <<>> /\ responses' = responses
           /\ op'.sent = <<>> /\ wire' = wire]_vars

\* An ignored event was delivered on a session that reports listening (of
\* the events sent here, only the ignored ones call no callback).
C31_Witness ==
    /\ op.name = "onmessage" /\ op.notes = <<>>
    /\ state.isConnected /\ state.isListening
    /\ conn.connected

\* C32 as stated: with autoConnect enabled, no automatic connect attempt is
\* started after an established session was torn down by disconnect().
C32_IdleAfterDisconnect ==
    \A a \in Attempts, b \in Attempts :
        (/\ a < b
         /\ wire[a] # <<>> /\ pcState[a] = "closed"
         /\ att[b].pc # "idle")
            => ~att[b].auto

\* C32 amended: disconnect() of an established session clears the guard, and
\* the auto-connect effect, which runs next because isConnected changed,
\* starts one automatic attempt and sets the guard again; apart from such
\* a run of the effect with the guard clear, an attempt starts only in a
\* call of connect().
C32_DisconnectRearmsAutoConnect ==
    [][/\ (op.name = "disconnect" /\ effectDeps = <<TRUE, FALSE>> /\ autoConnect)
            => /\ ~autoConnectAttempted
               /\ op'.name = "autoConnect" /\ op'.att = nextAttempt + 1
               /\ autoConnectAttempted'
       /\ nextAttempt' # nextAttempt
            => \/ op'.name = "connect"
               \/ /\ op'.name = "autoConnect"
                  /\ ~autoConnectAttempted /\ autoConnectAttempted']_vars

\* The effect has started an automatic attempt after disconnect() tore down
\* an established session.
C32_Witness ==
    \E a \in Attempts :
        /\ wire[a] # <<>> /\ pcState[a] = "closed"
        /\ op.name = "autoConnect" /\ op.att = a + 1
        /\ att[a + 1].auto
        /\ autoConnectAttempted


\* C33: whenever a microphone stream is held, the enabled flag of its
\* track is the negation of the muted flag (the flag outlives disconnect()
\* and a later connect()), and every toggleMute() on a held stream changes
\* the enabled flag of its track.
C33_EnabledMirrorsMuted ==
    [][/\ conn'.localStream # NULL
            => enabled'[conn'.localStream] = ~isMuted'
       /\ (op'.name = "toggleMute" /\ conn.localStream # NULL)
            => enabled'[conn.localStream] # enabled[conn.localStream]]_vars

\* The remote peer mirrors the item of the conversation.item.create event
\* that sendMessage() has just sent on channel a: it arrives as a
\* conversation.item.created event carrying the same item.
Mirror(a) ==
    /\ op.name = "sendMessage"
    /\ op.sent # <<>>
    /\ op.sent[1].ch = a
    /\ op.sent[1].event.type = "conversation.item.create"
    /\ OnMessage(a, ItemCreated(op.sent[1].event.item))

\* Sequential sessions in which the user sends texts and the remote peer
\* mirrors them.
MirrorNext ==
    \/ Lifecycle
    \/ \E text \in Texts : SendMessage(text)
    \/ \E a \in Attempts : Mirror(a)

MirrorSpec == Init /\ [][MirrorNext]_vars

\* C34: the number of occurrences of a user text in conversationHistory
\* grows only by sendMessage() on a connected session, by exactly one for
\* that call's text (so not when the remote peer mirrors the item back with
\* conversation.item.created); sendMessage() while not connected sends no
\* event and leaves the history as it was.
C34_SentTextOnceInHistory ==
    [][LET Occ(h, t) ==
               Cardinality({i \in 1..Len(h) : h[i] = UserItem(t)})
           grown == {t \in Texts :
                        Occ(state'.conversationHistory, t)
                            # Occ(state.conversationHistory, t)}
       IN
       /\ IF op'.name = "sendMessage" /\ conn.connected
          THEN \E t \in Texts :
                   /\ grown = {t}
                   /\ Occ(state'.conversationHistory, t)
                        = Occ(state.conversationHistory, t) + 1
          ELSE grown = {}
       /\ (op'.name = "sendMessage" /\ ~conn.connected)
            => /\ wire' = wire
               /\ state'.conversationHistory
                    = state.conversationHistory]_vars

\* C35: currentResponse is empty at mount and changes only in two ways: a
\* response.text.delta event appends its delta at the end and changes
\* nothing else (conversationHistory and the notifications included), and
\* clearConversation() empties it; so it is the concatenation, in arrival
\* order, of the deltas received since the last clearConversation(), and
\* no delta puts text into the history.
C35_AccumulatorIsDeltaConcatenation ==
    /\ state.currentResponse = ""
    /\ [][\/ state'.currentResponse = state.currentResponse
          \/ /\ op'.name = "onmessage"
             /\ \E d \in Deltas :
                    state' = [state EXCEPT !.currentResponse = @ \o d]
             /\ UNCHANGED <<conn, responses, wire>>
          \/ /\ op'.name = "clearConversation"
             /\ state'.currentResponse = ""]_vars

\* Both deltas have arrived, in order, after a response.created event and
\* with an item in the history.
C35_Witness ==
    /\ op.name = "onmessage"
    /\ state.currentResponse = "Hello"
    /\ state.isSpeaking
    /\ state.conversationHistory # <<>>
    /\ responses = <<>>

\* C36: a response.done event sets isSpeaking to false and calls
\* onResponseReceived at most once: exactly when some assistant item of
\* the output has a text part with a non-empty text, and then with the
\* first such text, in the order of the output.
C36_ResponseDoneSurfacesFirstText ==
    [][\A a \in Attempts, o \in Outputs :
         OnMessage(a, ResponseDone(o)) =>
           LET hits == UNION {{<<i, k>> :
                                 k \in {n \in 1..Len(o[i].content) :
                                          /\ o[i].role = "assistant"
                                          /\ o[i].content[n].type = "text"
                                          /\ o[i].content[n].text # ""}} :
                              i \in 1..Len(o)}
               first == CHOOSE h \in hits :
                            \A g \in hits :
                                \/ h[1] < g[1]
                                \/ h[1] = g[1] /\ h[2] <= g[2]
           IN
           /\ ~state'.isSpeaking
           /\ IF hits = {}
              THEN responses' = responses /\ op'.notes = <<>>
              ELSE /\ responses'
                        = Append(responses,
                                 o[first[1]].content[first[2]].text)
                   /\ op'.notes = <<"responseReceived">>]_vars

\* C37: an attempt only moves forward through the handshake; the
\* credential request is issued in the step in which the attempt passes
\* the guard of connect() and in no other step (so once per attempt, and
\* not again after it failed), and the offer is posted, with that
\* attempt's credential, only in the step in which the attempt starts
\* waiting for the SDP answer (so at most once per credential); a later
\* attempt issues its own request.
C37_OneCredentialPerAttempt ==
    [][\A a \in Attempts :
         LET rank == [p \in {"idle", "getEphemeralToken", "getUserMedia",
                             "createOffer", "setLocalDescription",
                             "iceGathering", "sdpFetch",
                             "setRemoteDescription", "done", "failed",
                             "denied"} |->
                        CASE p = "idle" -> 0
                          [] p = "getEphemeralToken" -> 1
                          [] p = "getUserMedia" -> 2
                          [] p = "createOffer" -> 3
                          [] p = "setLocalDescription" -> 4
                          [] p = "iceGathering" -> 5
                          [] p = "sdpFetch" -> 6
                          [] p = "setRemoteDescription" -> 7
                          [] OTHER -> 8]
             from == rank[att[a].pc]
             to == rank[att'[a].pc]
             calls == {op'.steps[i] : i \in 1..Len(op'.steps)}
         IN
         /\ from <= to
         /\ (from = 0 /\ to > 0)
              <=> (op'.att = a /\ "fetchToken" \in calls)
         /\ (from = 0 /\ to > 0)
              => /\ to = 1
                 /\ op'.steps = <<"fetchToken">>
                 /\ nextAttempt' = a
         /\ (from < 6 /\ to = 6)
              <=> (op'.att = a /\ "postOffer" \in calls)
         /\ (from < 6 /\ to = 6)
              => from \in {4, 5} /\ op'.steps = <<"postOffer">>
         /\ (from = 1 /\ att'[a].pc = "failed")
              => /\ op'.steps = <<>>
                 /\ nextAttempt' = nextAttempt]_vars

\* The second attempt posts its offer after the first one completed the
\* handshake and was disconnected.
C37_Witness ==
    /\ op.att = 2 /\ op.steps = <<"postOffer">>
    /\ att[2].pc = "sdpFetch"
    /\ att[1].pc = "done" /\ pcState[1] = "closed"

====
